---- MODULE Spec2Model ----
(***************************************************************************)
(* Model of the subtitle generator: the browser client                     *)
(* (services/geminiService.ts: fileToBase64, generateTranscription) and    *)
(* the serverless handler (api/generate: config, handler).                 *)
(*                                                                         *)
(* Strings are sequences of one-character strings (file types, base64     *)
(* payloads, data URLs) or of text fragments (messages).  JSON texts are   *)
(* sequences of tokens; JSONParse turns a text into a JavaScript value.    *)
(***************************************************************************)
EXTENDS Integers, Sequences, FiniteSets, TLC

\* Bound: the longest file, in bytes.
MaxLen == 3

\* The byte values files are made of.
ByteVals == {0, 77, 255}

\* config.maxDuration, in seconds.
maxDuration == 60

-----------------------------------------------------------------------------
\* JavaScript values held in object fields.

JsStr(s) == [t |-> "string", v |-> s]
Undefined == [t |-> "undefined", v |-> <<>>]
JsNull == [t |-> "null", v |-> <<>>]
JsNum(d) == [t |-> "number", v |-> <<d>>]

\* JavaScript truthiness, as used by `!x` and `a || b`.
Truthy(x) ==
    CASE x.t = "string" -> Len(x.v) > 0
      [] x.t = "number" -> x.v # <<"0">>
      [] OTHER -> FALSE

\* A JSON object over the field names the program uses; Undefined = absent.
EmptyObj ==
    [mimeType |-> Undefined, data |-> Undefined, error |-> Undefined,
     details |-> Undefined, start |-> Undefined, end |-> Undefined,
     text |-> Undefined]

\* Tokens of a JSON text.
ObjTok(o) == [k |-> "obj", o |-> o]
WsTok == [k |-> "ws", o |-> EmptyObj]
LbTok == [k |-> "lb", o |-> EmptyObj]
RbTok == [k |-> "rb", o |-> EmptyObj]
NullTok == [k |-> "null", o |-> EmptyObj]
NumTok == [k |-> "num", o |-> EmptyObj]
WordTok == [k |-> "word", o |-> EmptyObj]

\* String.prototype.trim: drop leading and trailing whitespace.
RECURSIVE TrimLeft(_)
TrimLeft(s) ==
    IF Len(s) > 0 /\ s[1].k = "ws" THEN TrimLeft(Tail(s)) ELSE s

RECURSIVE TrimRight(_)
TrimRight(s) ==
    IF Len(s) > 0 /\ s[Len(s)].k = "ws"
    THEN TrimRight(SubSeq(s, 1, Len(s) - 1)) ELSE s

Trim(s) == TrimRight(TrimLeft(s))

\* JSON.parse / Body.json(): the value of a JSON text, or a SyntaxError.
ParseFail == [ok |-> FALSE, t |-> "none", o |-> EmptyObj, items |-> <<>>]

JSONParse(txt) ==
    LET s == Trim(txt)
        n == Len(s)
    IN  IF n = 1 /\ s[1].k = "obj"
        THEN [ok |-> TRUE, t |-> "object", o |-> s[1].o, items |-> <<>>]
        ELSE IF n = 1 /\ s[1].k = "null"
        THEN [ok |-> TRUE, t |-> "null", o |-> EmptyObj, items |-> <<>>]
        ELSE IF n = 1 /\ s[1].k = "num"
        THEN [ok |-> TRUE, t |-> "number", o |-> EmptyObj, items |-> <<>>]
        ELSE IF n >= 2 /\ s[1].k = "lb" /\ s[n].k = "rb"
                /\ \A i \in 2..(n - 1) : s[i].k = "obj"
        THEN [ok |-> TRUE, t |-> "array", o |-> EmptyObj,
              items |-> [i \in 1..(n - 2) |-> s[i + 1].o]]
        ELSE ParseFail

\* Property access on a parsed value (undefined on non-objects).
Field(val, name) ==
    IF val.t = "object" THEN val.o[name] ELSE Undefined

-----------------------------------------------------------------------------
\* Base64 and data URLs (FileReader.readAsDataURL).

B64Alphabet ==
    <<"A","B","C","D","E","F","G","H","I","J","K","L","M","N","O","P",
      "Q","R","S","T","U","V","W","X","Y","Z","a","b","c","d","e","f",
      "g","h","i","j","k","l","m","n","o","p","q","r","s","t","u","v",
      "w","x","y","z","0","1","2","3","4","5","6","7","8","9","+","/">>

B64Char(n) == B64Alphabet[n + 1]

RECURSIVE B64Encode(_)
B64Encode(b) ==
    IF Len(b) = 0 THEN <<>>
    ELSE IF Len(b) = 1
    THEN <<B64Char(b[1] \div 4), B64Char((b[1] % 4) * 16), "=", "=">>
    ELSE IF Len(b) = 2
    THEN <<B64Char(b[1] \div 4),
           B64Char((b[1] % 4) * 16 + b[2] \div 16),
           B64Char((b[2] % 16) * 4), "=">>
    ELSE <<B64Char(b[1] \div 4),
           B64Char((b[1] % 4) * 16 + b[2] \div 16),
           B64Char((b[2] % 16) * 4 + b[3] \div 64),
           B64Char(b[3] % 64)>> \o B64Encode(SubSeq(b, 4, Len(b)))

\* String.prototype.split on a one-character separator.
RECURSIVE Split(_, _)
Split(s, sep) ==
    IF \A i \in 1..Len(s) : s[i] # sep THEN <<s>>
    ELSE LET i == CHOOSE i \in 1..Len(s) :
                      s[i] = sep /\ \A j \in 1..(i - 1) : s[j] # sep
         IN  <<SubSeq(s, 1, i - 1)>> \o Split(SubSeq(s, i + 1, Len(s)), sep)

\* The results FileReader.readAsDataURL can hand to onload: the data URL
\* "data:<type>;base64,<payload>"; for an empty file some browsers give
\* the bare "data:".
ReadAsDataURL(f) ==
    LET full == <<"d","a","t","a",":">> \o f.type
                \o <<";","b","a","s","e","6","4",",">> \o B64Encode(f.bytes)
    IN  IF Len(f.bytes) = 0 THEN {full, <<"d","a","t","a",":">>} ELSE {full}

\* fileToBase64's onload: reader.result.split(',')[1].
StripPrefix(url) ==
    LET parts == Split(url, ",")
    IN  IF Len(parts) >= 2 THEN JsStr(parts[2]) ELSE Undefined

-----------------------------------------------------------------------------
\* Errors and messages.

Err(msg) == [isError |-> TRUE, message |-> msg]
NonError == [isError |-> FALSE, message |-> <<>>]

SyntaxErrorMsg == <<"Unexpected token in JSON">>
DestructureMsg == <<"Cannot destructure property 'mimeType' as it is null">>
TrimMsg == <<"Cannot read properties of undefined (reading 'trim')">>
NullErrorMsg == <<"Cannot read properties of null (reading 'error')">>
FetchMsg == <<"Failed to fetch">>
ReadCause == <<"NotReadableError">>

-----------------------------------------------------------------------------
\* The handler's decisions and responses (api/generate).

NoResp == [by |-> "none", status |-> 0, body |-> <<>>]

JsonResponse(status, o) ==
    [by |-> "handler", status |-> status, body |-> <<ObjTok(o)>>]

\* Variant: the test also lets GET through.
MethodNotAllowed_mut(m) == m \notin {"POST", "GET"}

\* request.method !== 'POST'
MethodNotAllowed(m) == m # "POST"

\* Variant: only an unset variable counts, an empty one does not.
KeyMissing_mut(k) == k.t = "undefined"

\* !process.env.API_KEY
KeyMissing(k) == ~Truthy(k)

\* Variant: the negation of data is dropped.
MissingFields_mut(m, d) == ~Truthy(m) \/ Truthy(d)

\* !mimeType || !data
MissingFields(m, d) == ~Truthy(m) \/ ~Truthy(d)

MethodResponse ==
    JsonResponse(405, [EmptyObj EXCEPT !.error = JsStr(<<"Method Not Allowed">>)])

ConfigMsg == <<"API_KEY", " environment variable is not set on the server.">>

ConfigResponse == JsonResponse(500, [EmptyObj EXCEPT !.error = JsStr(ConfigMsg)])

ValidationMsg == <<"Missing mimeType or data in request body.">>

ValidationResponse ==
    JsonResponse(400, [EmptyObj EXCEPT !.error = JsStr(ValidationMsg)])

UnknownMsg == <<"An unknown error occurred.">>

\* Variant: the message of the caught error is not used.
ErrorMessage_mut(e) == UnknownMsg

\* error instanceof Error ? error.message : 'An unknown error occurred.'
ErrorMessage(e) == IF e.isError THEN e.message ELSE UnknownMsg

FailedMsg == <<"Failed to process file with AI model.">>

\* The catch block's response.
CatchResponse(e) ==
    JsonResponse(500, [EmptyObj EXCEPT !.error = JsStr(FailedMsg),
                                       !.details = JsStr(ErrorMessage(e))])

\* new Response(response.text.trim(), {status: 200})
OkResponse(text) == [by |-> "handler", status |-> 200, body |-> Trim(text)]

\* What the function runtime answers when it ends an invocation itself.
PlatformResponse == [by |-> "platform", status |-> 504, body |-> <<WordTok>>]

\* Variant: the limit is never reached.
TimedOut_mut(e) == e > maxDuration

\* The runtime's limit on an invocation, from config.maxDuration.
TimedOut(e) == e >= maxDuration

-----------------------------------------------------------------------------
\* The client's decisions (generateTranscription).

\* Response.ok
Ok(status) == status >= 200 /\ status <= 299

StatusText(status) ==
    CASE status = 400 -> "400" [] status = 405 -> "405"
      [] status = 500 -> "500" [] status = 504 -> "504" [] OTHER -> "200"

WrapPrefix == "Failed to generate transcription. Please try again. ("

ClientUnknownMsg == <<"An unknown error occurred during transcription.">>

\* The catch block of generateTranscription: the message of the rethrown Error.
ClientCatch(e) ==
    IF e.isError THEN <<WrapPrefix>> \o e.message \o <<")">>
    ELSE ClientUnknownMsg

\* result.error || `Request failed with status ${response.status}`
ServerMessage(result, status) ==
    IF Truthy(Field(result, "error")) THEN Field(result, "error").v
    ELSE <<"Request failed with status ", StatusText(status)>>

\* JSON.stringify({mimeType: file.type, data: base64Data})
RequestBody(type, data) ==
    <<ObjTok([EmptyObj EXCEPT !.mimeType = JsStr(type), !.data = data])>>

Rejected(msg) == [kind |-> "rejected", message |-> msg, value |-> ParseFail]
Resolved(val) == [kind |-> "resolved", message |-> <<>>, value |-> val]
Pending == [kind |-> "pending", message |-> <<>>, value |-> ParseFail]

-----------------------------------------------------------------------------
\* Inputs.

ByteSeqs == UNION {[1..n -> ByteVals] : n \in 0..MaxLen}

FileTypes == {<<>>, <<"a","/","w">>, <<"v",";","c","=","8",",","o">>}

Files == [type : FileTypes, bytes : ByteSeqs]

Methods == {"POST", "GET", "PUT"}

FieldVals ==
    {Undefined, JsNull, JsStr(<<>>), JsNum("0"), JsNum("5"),
     JsStr(<<"a","/","w">>), JsStr(<<"T","Q","=","=">>)}

DirectBodies ==
    {<<>>, <<WordTok>>, <<NullTok>>, <<NumTok>>, <<LbTok, RbTok>>}
    \cup {<<ObjTok([EmptyObj EXCEPT !.mimeType = m, !.data = d])>> :
            m \in FieldVals, d \in FieldVals}

Envs == {Undefined, JsStr(<<>>), JsStr(<<"k">>)}

Seg(s, e, x) ==
    ObjTok([EmptyObj EXCEPT !.start = s, !.end = e, !.text = x])

Seg1 == Seg(JsStr(<<"00:00:00,000">>), JsStr(<<"00:00:01,500">>), JsStr(<<"hello">>))
Seg2 == Seg(JsStr(<<"00:00:01,500">>), JsStr(<<"00:00:03,000">>), JsStr(<<"world">>))
SegEmptyText == Seg(JsStr(<<"00:00:00,000">>), JsStr(<<"00:00:01,500">>), JsStr(<<>>))
SegNoEnd == Seg(JsStr(<<"00:00:00,000">>), Undefined, JsStr(<<"hello">>))

\* What generateContent can resolve with: response.text, or no text at all.
ModelReplies ==
    {[hasText |-> FALSE, text |-> <<>>]}
    \cup {[hasText |-> TRUE, text |-> t] :
            t \in {<<WsTok, LbTok, Seg1, RbTok, WsTok>>,
                   <<LbTok, Seg1, Seg2, RbTok>>,
                   <<LbTok, RbTok>>,
                   <<LbTok, SegEmptyText, RbTok>>,
                   <<LbTok, SegNoEnd, RbTok>>,
                   <<LbTok, Seg1>>,
                   <<WordTok>>,
                   <<>>}}

\* The messages of the Errors generateContent can reject with.
ModelErrors == {<<"quota exceeded">>, <<"API key not valid">>}

NoOutcome == [kind |-> "none", hasText |-> FALSE, text |-> <<>>, error |-> NonError]
NoThrow == [src |-> "none", error |-> NonError]
NoInput == [mimeType |-> Undefined, data |-> Undefined]
NoReq == [method |-> "", body |-> <<>>]
NoFile == [type |-> <<>>, bytes |-> <<>>]

-----------------------------------------------------------------------------
VARIABLES
    env,          \* process.env.API_KEY
    hpc,          \* the handler's position: idle, json, generate, done
    req,          \* the request being handled
    origin,       \* who sent it: client, direct, none
    bodyRead,     \* request.json() was called in this invocation
    modelCalled,  \* generateContent was called in this invocation
    modelInput,   \* the inlineData passed to generateContent
    outcome,      \* how generateContent settled
    thrown,       \* what the handler's catch block caught
    elapsed,      \* seconds spent awaiting generateContent
    resp,         \* the response of this invocation
    configFailed, \* an earlier invocation found the credential missing
    cpc,          \* the client's position: idle, reading, fetching, waiting, settled
    file,         \* the File given to generateTranscription
    base64Data,   \* the result of fileToBase64
    cause,        \* the underlying cause of the client's failure
    cresult       \* how generateTranscription settled

hvars == <<req, origin, bodyRead, modelCalled, modelInput, outcome, thrown,
           elapsed, resp>>
cvars == <<cpc, file, base64Data, cause, cresult>>
vars == <<env, hpc, configFailed, hvars, cvars>>

Init ==
    /\ env \in Envs
    /\ hpc = "idle"
    /\ req = NoReq
    /\ origin = "none"
    /\ bodyRead = FALSE
    /\ modelCalled = FALSE
    /\ modelInput = NoInput
    /\ outcome = NoOutcome
    /\ thrown = NoThrow
    /\ elapsed = 0
    /\ resp = NoResp
    /\ configFailed = FALSE
    /\ cpc = "idle"
    /\ file = NoFile
    /\ base64Data = Undefined
    /\ cause = <<>>
    /\ cresult = Pending

\* The environment variable is set or unset between invocations.
SetEnv(k) ==
    /\ hpc = "idle" /\ cpc = "idle"
    /\ env # k
    /\ env' = k
    /\ UNCHANGED <<hpc, configFailed, hvars, cvars>>

\* The handler from its entry to its first await.
HandlerEntry(r, o) ==
    /\ hpc = "idle"
    /\ req' = r
    /\ origin' = o
    /\ IF MethodNotAllowed(r.method)
       THEN /\ resp' = MethodResponse
            /\ hpc' = "done"
            /\ UNCHANGED configFailed
       ELSE IF KeyMissing(env)
       THEN /\ resp' = ConfigResponse
            /\ hpc' = "done"
            /\ configFailed' = TRUE
       ELSE /\ resp' = NoResp
            /\ hpc' = "json"
            /\ UNCHANGED configFailed
    /\ UNCHANGED <<env, bodyRead, modelCalled, modelInput, outcome, thrown, elapsed>>

\* A request sent to the endpoint by anything but the client.
DirectRequest(m, b) ==
    /\ cpc = "idle"
    /\ HandlerEntry([method |-> m, body |-> b], "direct")
    /\ UNCHANGED cvars

\* The handler from request.json() to the call of generateContent.
HandlerReadBody ==
    /\ hpc = "json"
    /\ bodyRead' = TRUE
    /\ LET parsed == JSONParse(req.body)
           m == Field(parsed, "mimeType")
           d == Field(parsed, "data")
       IN  IF ~parsed.ok
           THEN /\ thrown' = [src |-> "json", error |-> Err(SyntaxErrorMsg)]
                /\ resp' = CatchResponse(Err(SyntaxErrorMsg))
                /\ hpc' = "done"
                /\ UNCHANGED <<modelCalled, modelInput>>
           ELSE IF parsed.t = "null"
           THEN /\ thrown' = [src |-> "destructure", error |-> Err(DestructureMsg)]
                /\ resp' = CatchResponse(Err(DestructureMsg))
                /\ hpc' = "done"
                /\ UNCHANGED <<modelCalled, modelInput>>
           ELSE IF MissingFields(m, d)
           THEN /\ resp' = ValidationResponse
                /\ hpc' = "done"
                /\ UNCHANGED <<thrown, modelCalled, modelInput>>
           ELSE /\ modelCalled' = TRUE
                /\ modelInput' = [mimeType |-> m, data |-> d]
                /\ hpc' = "generate"
                /\ UNCHANGED <<thrown, resp>>
    /\ UNCHANGED <<env, configFailed, req, origin, outcome, elapsed, cvars>>

\* A second passes while generateContent is pending.
Tick ==
    /\ hpc = "generate"
    /\ elapsed < maxDuration
    /\ elapsed' = elapsed + 1
    /\ UNCHANGED <<env, hpc, configFailed, req, origin, bodyRead, modelCalled,
                   modelInput, outcome, thrown, resp, cvars>>

\* generateContent resolves; the handler trims response.text and responds.
ModelReturns(reply) ==
    /\ hpc = "generate"
    /\ outcome' = [kind |-> "returns", hasText |-> reply.hasText,
                   text |-> reply.text, error |-> NonError]
    /\ IF reply.hasText
       THEN /\ resp' = OkResponse(reply.text)
            /\ UNCHANGED thrown
       ELSE /\ thrown' = [src |-> "trim", error |-> Err(TrimMsg)]
            /\ resp' = CatchResponse(Err(TrimMsg))
    /\ hpc' = "done"
    /\ elapsed' = 0
    /\ UNCHANGED <<env, configFailed, req, origin, bodyRead, modelCalled,
                   modelInput, cvars>>

\* generateContent rejects; the catch block responds.
ModelThrows(msg) ==
    /\ hpc = "generate"
    /\ outcome' = [kind |-> "throws", hasText |-> FALSE, text |-> <<>>,
                   error |-> Err(msg)]
    /\ thrown' = [src |-> "model", error |-> Err(msg)]
    /\ resp' = CatchResponse(Err(msg))
    /\ hpc' = "done"
    /\ elapsed' = 0
    /\ UNCHANGED <<env, configFailed, req, origin, bodyRead, modelCalled,
                   modelInput, cvars>>

\* The runtime ends an invocation that has used up maxDuration.
PlatformAbort ==
    /\ hpc = "generate"
    /\ TimedOut(elapsed)
    /\ resp' = PlatformResponse
    /\ hpc' = "done"
    /\ UNCHANGED <<env, configFailed, req, origin, bodyRead, modelCalled,
                   modelInput, outcome, thrown, elapsed, cvars>>

ResetHandler ==
    /\ hpc' = "idle"
    /\ req' = NoReq
    /\ origin' = "none"
    /\ bodyRead' = FALSE
    /\ modelCalled' = FALSE
    /\ modelInput' = NoInput
    /\ outcome' = NoOutcome
    /\ thrown' = NoThrow
    /\ elapsed' = 0
    /\ resp' = NoResp

\* The response of a direct request is delivered; the invocation is over.
DirectDone ==
    /\ hpc = "done" /\ origin = "direct"
    /\ ResetHandler
    /\ UNCHANGED <<env, configFailed, cvars>>

\* generateTranscription(file) is called and fileToBase64 starts reading.
ClientCall(f) ==
    /\ cpc = "idle" /\ hpc = "idle"
    /\ file' = f
    /\ cpc' = "reading"
    /\ UNCHANGED <<env, hpc, configFailed, hvars, base64Data, cause, cresult>>

\* reader.onload: the promise resolves with the part after the comma.
FileReaderLoad ==
    /\ cpc = "reading"
    /\ \E url \in ReadAsDataURL(file) : base64Data' = StripPrefix(url)
    /\ cpc' = "fetching"
    /\ UNCHANGED <<env, hpc, configFailed, hvars, file, cause, cresult>>

\* reader.onerror: the promise rejects with the event, which the catch block
\* of generateTranscription receives.
FileReaderError ==
    /\ cpc = "reading"
    /\ cause' = ReadCause
    /\ cresult' = Rejected(ClientCatch(NonError))
    /\ cpc' = "settled"
    /\ UNCHANGED <<env, hpc, configFailed, hvars, file, base64Data>>

\* fetch rejects (network failure).
FetchFails ==
    /\ cpc = "fetching"
    /\ cause' = FetchMsg
    /\ cresult' = Rejected(ClientCatch(Err(FetchMsg)))
    /\ cpc' = "settled"
    /\ UNCHANGED <<env, hpc, configFailed, hvars, file, base64Data>>

\* fetch delivers the POST to the handler.
FetchSend ==
    /\ cpc = "fetching"
    /\ HandlerEntry([method |-> "POST",
                     body |-> RequestBody(file.type, base64Data)], "client")
    /\ cpc' = "waiting"
    /\ UNCHANGED <<file, base64Data, cause, cresult>>

\* The response arrives: response.json(), the response.ok test, the result.
ClientReceive ==
    /\ cpc = "waiting" /\ hpc = "done" /\ origin = "client"
    /\ LET result == JSONParse(resp.body)
       IN  IF ~result.ok
           THEN /\ cause' = SyntaxErrorMsg
                /\ cresult' = Rejected(ClientCatch(Err(SyntaxErrorMsg)))
           ELSE IF ~Ok(resp.status) /\ result.t = "null"
           THEN /\ cause' = NullErrorMsg
                /\ cresult' = Rejected(ClientCatch(Err(NullErrorMsg)))
           ELSE IF ~Ok(resp.status)
           THEN /\ cause' = ServerMessage(result, resp.status)
                /\ cresult' = Rejected(ClientCatch(Err(ServerMessage(result, resp.status))))
           ELSE /\ cresult' = Resolved(result)
                /\ UNCHANGED cause
    /\ cpc' = "settled"
    /\ UNCHANGED <<env, hpc, configFailed, hvars, file, base64Data>>

\* The promise has settled; client and handler are ready for the next call.
ClientReset ==
    /\ cpc = "settled"
    /\ cpc' = "idle"
    /\ file' = NoFile
    /\ base64Data' = Undefined
    /\ cause' = <<>>
    /\ cresult' = Pending
    /\ IF origin = "client" THEN ResetHandler ELSE UNCHANGED <<hpc, hvars>>
    /\ UNCHANGED <<env, configFailed>>

Next ==
    \/ \E k \in Envs : SetEnv(k)
    \/ \E m \in Methods, b \in DirectBodies : DirectRequest(m, b)
    \/ HandlerReadBody
    \/ Tick
    \/ \E reply \in ModelReplies : ModelReturns(reply)
    \/ \E msg \in ModelErrors : ModelThrows(msg)
    \/ PlatformAbort
    \/ DirectDone
    \/ \E f \in Files : ClientCall(f)
    \/ FileReaderLoad
    \/ FileReaderError
    \/ FetchFails
    \/ FetchSend
    \/ ClientReceive
    \/ ClientReset

Spec == Init /\ [][Next]_vars

\* The runtime keeps the clock running, enforces its limit, and delivers the
\* request body; nothing makes generateContent settle.
FairSpec ==
    Spec /\ WF_vars(Tick) /\ WF_vars(PlatformAbort) /\ WF_vars(HandlerReadBody)

TypeOK ==
    /\ hpc \in {"idle", "json", "generate", "done"}
    /\ cpc \in {"idle", "reading", "fetching", "waiting", "settled"}
    /\ elapsed \in 0..maxDuration
    /\ env \in Envs

-----------------------------------------------------------------------------
\* Vocabulary of the properties.

\* Contiguous inclusion of one message in another.
Includes(msg, part) ==
    \E i \in 0..(Len(msg) - Len(part)) :
        SubSeq(msg, i + 1, i + Len(part)) = part

B64Index(c) == (CHOOSE i \in 1..64 : B64Alphabet[i] = c) - 1

IsB64Char(c) == \E i \in 1..64 : B64Alphabet[i] = c

RECURSIVE B64DecodeGroups(_)
B64DecodeGroups(s) ==
    IF Len(s) = 0 THEN <<>>
    ELSE LET a == B64Index(s[1])
             b == B64Index(s[2])
         IN  IF s[3] = "=" THEN <<a * 4 + b \div 16>>
             ELSE IF s[4] = "="
             THEN <<a * 4 + b \div 16, (b % 16) * 16 + B64Index(s[3]) \div 4>>
             ELSE <<a * 4 + b \div 16,
                    (b % 16) * 16 + B64Index(s[3]) \div 4,
                    (B64Index(s[3]) % 4) * 64 + B64Index(s[4])>>
                  \o B64DecodeGroups(SubSeq(s, 5, Len(s)))

\* The bytes a base64 string stands for, if it is one (the inverse the
\* round trip is measured with).
B64Decode(s) ==
    LET n == Len(s)
        wellFormed ==
            /\ n % 4 = 0
            /\ \A i \in 1..n :
                  \/ IsB64Char(s[i])
                  \/ s[i] = "=" /\ i = n
                  \/ s[i] = "=" /\ i = n - 1 /\ s[n] = "="
    IN  IF wellFormed THEN [ok |-> TRUE, bytes |-> B64DecodeGroups(s)]
        ELSE [ok |-> FALSE, bytes |-> <<>>]

NonEmptyStr(x) == x.t = "string" /\ Len(x.v) > 0

ParsedReq == JSONParse(req.body)
ReqMimeType == Field(ParsedReq, "mimeType")
ReqData == Field(ParsedReq, "data")
RespValue == JSONParse(resp.body)

\* The invocation has ended with a response written by the handler.
HandlerResponded == hpc = "done" /\ resp.by = "handler"

\* A POST with the credential configured and a non-empty mimeType and data.
ValidPost ==
    /\ req.method = "POST"
    /\ Truthy(env)
    /\ ParsedReq.ok
    /\ NonEmptyStr(ReqMimeType)
    /\ NonEmptyStr(ReqData)

\* A JSON text that is an array of objects each carrying start, end and text.
MatchesSchema(txt) ==
    LET p == JSONParse(txt)
    IN  /\ p.ok
        /\ p.t = "array"
        /\ \A i \in 1..Len(p.items) :
              /\ p.items[i].start.t = "string"
              /\ p.items[i].end.t = "string"
              /\ p.items[i].text.t = "string"

\* ... in which start, end and text are non-empty in every element.
IsSegmentArray(txt) ==
    LET p == JSONParse(txt)
    IN  /\ p.ok
        /\ p.t = "array"
        /\ \A i \in 1..Len(p.items) :
              /\ NonEmptyStr(p.items[i].start)
              /\ NonEmptyStr(p.items[i].end)
              /\ NonEmptyStr(p.items[i].text)

ModelReturnedText == outcome.kind = "returns" /\ outcome.hasText

-----------------------------------------------------------------------------
\* C1 as stated: every valid POST is answered 200 with a JSON array whose
\* elements all have non-empty start, end and text.
C1_AlwaysSegments ==
    (HandlerResponded /\ ValidPost)
        => (resp.status = 200 /\ IsSegmentArray(resp.body))

\* C1, amended: for every valid POST the handler invokes the model; when the
\* call returns a reply that is a JSON array whose elements all have
\* non-empty start, end and text, the response is 200 with that array; when
\* the call throws, the response is 500.
C1_SegmentsWhenModelSendsThem ==
    (HandlerResponded /\ ValidPost)
        => /\ modelCalled
           /\ (ModelReturnedText /\ IsSegmentArray(outcome.text))
                 => /\ resp.status = 200
                    /\ IsSegmentArray(resp.body)
                    /\ RespValue = JSONParse(outcome.text)
           /\ outcome.kind = "throws" => resp.status = 500

C1_Witness ==
    /\ HandlerResponded /\ ValidPost
    /\ resp.status = 200
    /\ IsSegmentArray(resp.body)
    /\ Len(RespValue.items) = 2

\* C2: a POST (credential configured) whose JSON body lacks mimeType or data
\* is answered 400 with the exact message, and the model is not invoked.
C2_MissingFieldsGive400 ==
    (HandlerResponded /\ req.method = "POST" /\ Truthy(env) /\ ParsedReq.ok
        /\ (~Truthy(ReqMimeType) \/ ~Truthy(ReqData)))
        => /\ resp.status = 400
           /\ Field(RespValue, "error") = JsStr(ValidationMsg)
           /\ ~modelCalled

\* C3: a request whose method is not POST is answered 405 "Method Not
\* Allowed", whatever the credential and the body, and neither the body is
\* read nor the model invoked.
C3_NonPostGives405 ==
    (hpc = "done" /\ req.method # "POST")
        => /\ resp.by = "handler"
           /\ resp.status = 405
           /\ Field(RespValue, "error") = JsStr(<<"Method Not Allowed">>)
           /\ ~bodyRead
           /\ ~modelCalled

C3_Witness ==
    /\ hpc = "done" /\ req.method = "GET"
    /\ ~Truthy(env)
    /\ ~ParsedReq.ok
    /\ resp.status = 405

\* C4: a POST made while API_KEY is not configured is answered 500 with a
\* message naming API_KEY, without reading the body or invoking the model;
\* with the credential present no invocation gets that answer, and one
\* whose model call returns text is answered 200 even after such a failure.
C4_MissingKeyGives500 ==
    /\ (hpc = "done" /\ req.method = "POST" /\ ~Truthy(env))
          => /\ resp.by = "handler"
             /\ resp.status = 500
             /\ Includes(Field(RespValue, "error").v, <<"API_KEY">>)
             /\ ~bodyRead
             /\ ~modelCalled
    /\ (HandlerResponded /\ Truthy(env))
          => ~Includes(Field(RespValue, "error").v, <<"API_KEY">>)
    /\ (HandlerResponded /\ Truthy(env) /\ ModelReturnedText)
          => resp.status = 200

C4_Witness ==
    /\ configFailed
    /\ HandlerResponded /\ Truthy(env)
    /\ req.method = "POST"
    /\ resp.status = 200

\* C5: when the model call throws, the handler still responds: 500 with an
\* envelope {error, details} whose details is the thrown error's message;
\* whatever is thrown inside the handler ends in such an envelope.
C5_ThrowGives500WithDetails ==
    /\ (hpc = "done" /\ outcome.kind = "throws")
          => /\ resp.by = "handler"
             /\ resp.status = 500
             /\ RespValue.t = "object"
             /\ NonEmptyStr(Field(RespValue, "error"))
             /\ Field(RespValue, "details") = JsStr(outcome.error.message)
    /\ (hpc = "done" /\ thrown.src # "none")
          => /\ resp.by = "handler"
             /\ resp.status = 500
             /\ Field(RespValue, "details") = JsStr(thrown.error.message)

C5_Witness ==
    /\ hpc = "done" /\ outcome.kind = "throws"
    /\ resp.status = 500
    /\ Field(RespValue, "details") = JsStr(<<"quota exceeded">>)

\* C6: a model reply that violates the output schema is reported with
\* status 500, never returned with status 200.
C6_SchemaViolationGives500 ==
    (HandlerResponded /\ ModelReturnedText /\ ~MatchesSchema(outcome.text))
        => (resp.status = 500 /\ resp.status # 200)

\* C7: every handler invocation eventually produces a response; the handler
\* responds only after the model call has completed, and a call that uses up
\* the maximum duration is aborted and reported as a failure.
C7_RespondsOnlyAfterCall ==
    /\ hpc \in {"json", "generate"} => resp.by = "none"
    /\ (hpc = "done" /\ modelCalled)
          => \/ resp.by = "handler" /\ outcome.kind # "none"
             \/ /\ resp.by = "platform" /\ outcome.kind = "none"
                /\ elapsed >= maxDuration
                /\ ~Ok(resp.status)

C8_RejectionNamesCause ==
    /\ (cpc = "settled" /\ cresult.kind = "rejected")
          => (Len(cause) > 0 /\ Includes(cresult.message, cause))
    /\ (cpc = "settled" /\ resp.by # "none" /\ ~Ok(resp.status))
          => /\ cresult.kind = "rejected"
             /\ NonEmptyStr(Field(RespValue, "error"))
             /\ cause = Field(RespValue, "error").v

\* C9: the client sends {mimeType, data} with the file's type and exactly
\* the base64 payload of the file's bytes, and the handler passes both
\* unchanged to the model, so that the data decodes back to the file.
C9_RoundTrip ==
    /\ (origin = "client" /\ cpc \in {"waiting", "settled"})
          => /\ ReqMimeType = JsStr(file.type)
             /\ ReqData.v = B64Encode(file.bytes)
    /\ (origin = "client" /\ hpc = "done" /\ Truthy(env))
          => /\ modelCalled
             /\ modelInput.mimeType = JsStr(file.type)
             /\ modelInput.data.t = "string"
             /\ B64Decode(modelInput.data.v) = [ok |-> TRUE, bytes |-> file.bytes]

\* C10: every handler response has a status in {200, 400, 405, 500}; a 500
\* only when the credential is missing or the model call failed, a 400 only
\* when mimeType or data is missing.
C10_StatusCauses ==
    HandlerResponded
        => /\ resp.status \in {200, 400, 405, 500}
           /\ resp.status = 500
                 => \/ ~Truthy(env)
                    \/ modelCalled /\ outcome.kind = "throws"
                    \/ modelCalled /\ outcome.kind = "returns" /\ ~outcome.hasText
           /\ resp.status = 400
                 => (~Truthy(ReqMimeType) \/ ~Truthy(ReqData))

====
